---- MODULE Spec2Model ----
(***************************************************************************)
(* conventional-pre-commit, hook.py: the command line hook `main`.         *)
(*                                                                         *)
(* Text is modelled as a sequence of tokens (a token stands for a run of   *)
(* characters: a type word, a scope word, "(", ")", "!", ":", " ", a line  *)
(* break, a word of free text, the help header the hook writes, a byte     *)
(* that is not UTF-8).  The commit message file is one such sequence.      *)
(* main is a sequential procedure; pc is its position, one action per      *)
(* statement that calls into format, reads or writes the file, or starts   *)
(* a subprocess.  The editor subprocess is the environment: it may leave   *)
(* any content in the file.                                                *)
(***************************************************************************)
EXTENDS Integers, Sequences, FiniteSets, TLC

VARIABLES
    pc,          \* position in main
    argv,        \* the command line given to main
    args,        \* argparse namespace (line 66)
    file,        \* content of the commit message file args.input
    message,     \* local `message`
    scopes,      \* local `scopes`
    editor,      \* local `editor`
    ret,         \* <<>> while running, <<code>> once main returned or exited
    \* history, for stating the properties
    file0,       \* file content when main was entered
    via,         \* the return statement taken
    lastCall,    \* the most recent call into format, with its arguments
    lastOp,      \* the most recent operation of main
    prevOp,      \* the operation before it
    autoCalled,  \* has_autosquash_prefix was called
    convCalled,  \* is_conventional was called
    wrote,       \* main has written the file
    launched,    \* main has started a subprocess
    edited,      \* the editor has run
    fresh        \* message was read after the most recent editor run

vars == <<pc, argv, args, file, message, scopes, editor, ret, file0, via,
          lastCall, lastOp, prevOp, autoCalled, convCalled, wrote, launched, edited,
          fresh>>

(***************************************************************************)
(* Constants of hook.py                                                    *)
(***************************************************************************)
RESULT_SUCCESS == 0

RESULT_FAIL == 1

\* Bound of the model: the editor may exit leaving the file as main wrote it
\* (help header included) only while the file has at most this many tokens.
MaxFileLen == 9

(***************************************************************************)
(* format module, modelled from the specification (sections 4.1 to 4.3)    *)
(***************************************************************************)
DEFAULT_TYPES ==
    <<"build", "chore", "ci", "docs", "feat", "fix", "perf", "refactor",
      "revert", "style", "test">>

AUTOSQUASH_PREFIXES == {"fixup!", "squash!", "amend!"}

Whitespace == {" ", "\t"}

Newline == "\n"

Range(s) == {s[i] : i \in 1..Len(s)}

\* Case folding of a type token.
Lower(t) ==
    CASE t = "Feat" -> "feat"
      [] t = "FIX" -> "fix"
      [] OTHER -> t

\* Index of the first occurrence of token t in s, 0 when there is none.
IndexOf(s, t) ==
    IF t \in Range(s)
    THEN CHOOSE i \in 1..Len(s) : s[i] = t /\ \A j \in 1..(i - 1) : s[j] # t
    ELSE 0

\* The header: the text up to the first line break.
HeaderLine(m) ==
    IF IndexOf(m, Newline) = 0 THEN m ELSE SubSeq(m, 1, IndexOf(m, Newline) - 1)

RECURSIVE RTrim(_)
RTrim(s) ==
    IF s # <<>> /\ s[Len(s)] \in Whitespace THEN RTrim(SubSeq(s, 1, Len(s) - 1)) ELSE s

\* Section 4.1: the header begins with an autosquash prefix, followed by at
\* least one space and further text.
has_autosquash_prefix(m) ==
    LET h == HeaderLine(m)
    IN  /\ Len(h) >= 3
        /\ h[1] \in AUTOSQUASH_PREFIXES
        /\ h[2] = " "

\* Python truth value of the `scopes` value.
Truthy(s) ==
    \/ s.kind = "str" /\ s.str # <<>>
    \/ s.kind = "list" /\ s.list # <<>>

\* Section 4.2: header := type [ "(" scope ")" ] [ "!" ] ":" " " description
is_conventional(m, types, optional_scope, sc) ==
    LET h == RTrim(HeaderLine(m))
        hasScope == Len(h) >= 2 /\ h[2] = "("
        close == IF hasScope THEN IndexOf(h, ")") ELSE 0
        scope == IF close > 2 THEN SubSeq(h, 3, close - 1) ELSE <<>>
        p == IF hasScope THEN close + 1 ELSE 2          \* after type and scope
        q == IF p <= Len(h) /\ h[p] = "!" THEN p + 1 ELSE p  \* after the marker
    IN  /\ h # <<>>
        /\ Lower(h[1]) \in {Lower(types[i]) : i \in 1..Len(types)}
        /\ IF hasScope
           THEN /\ close > 3
                /\ Range(scope) \cap {"(", ")", ":", Newline} = {}
                /\ Truthy(sc) => sc.kind = "list" /\ scope \in Range(sc.list)
           ELSE optional_scope
        /\ q + 2 <= Len(h)
        /\ h[q] = ":"
        /\ h[q + 1] = " "
        /\ \E k \in (q + 2)..Len(h) : h[k] \notin Whitespace

(***************************************************************************)
(* Values                                                                  *)
(***************************************************************************)
None == [kind |-> "None", str |-> <<>>, list |-> <<>>]

Str(s) == [kind |-> "str", str |-> s, list |-> <<>>]

List(l) == [kind |-> "list", str |-> <<>>, list |-> l]

\* str.split(","): the segments between the commas, in order.
RECURSIVE Split(_)
Split(s) ==
    IF IndexOf(s, ",") = 0
    THEN <<s>>
    ELSE <<SubSeq(s, 1, IndexOf(s, ",") - 1)>> \o Split(SubSeq(s, IndexOf(s, ",") + 1, Len(s)))

\* A byte sequence that is not valid UTF-8.
BadByte == "\\xff"

Decodable(f) == BadByte \notin Range(f)

\* The text main writes in front of the message (lines 134-142); it ends
\* without a line break.
HelpHeader == <<"#help">>

(***************************************************************************)
(* Inputs                                                                  *)
(***************************************************************************)
\* Commit messages the file may hold, at entry or after the editor has run.
Messages ==
    { <<>>,                                                     \* empty
      <<"x">>,                                                  \* random text
      <<"feat", ":", " ", "x">>,
      <<"Feat", ":", " ", "x">>,
      <<"fix", ":", " ", "x", " ", Newline, Newline, "x">>,       \* with a body
      <<"junk", ":", " ", "x">>,                                \* unknown type
      <<"feat", ":", " ", " ">>,                                \* no description
      <<"feat", "(", "api", ")", ":", " ", "x">>,
      <<"fix", "(", "client", ")", "!", ":", " ", "x">>,
      <<"feat", "!", "(", "api", ")", ":", " ", "x">>,          \* marker misplaced
      <<"feat", "(", ")", ":", " ", "x">>,                      \* empty scope
      <<"fixup!", " ", "x">>,
      <<"squash!", " ", "feat", ":", " ", "x">>,
      <<"amend!", " ", "feat", "(", "api", ")", ":", " ", "x">> }

FileContents == Messages \cup {<<BadByte>>}

\* Values of --scopes.
ScopesValues == { <<>>, <<"api">>, <<"api", ",", "client">>, <<"api", ",">> }

\* The positionals: type names, then the path of the message file.
Positionals == { <<>>, <<"MSG">>, <<"fix", "MSG">>, <<"feat", "fix", "MSG">> }

Argvs ==
    [ pos : Positionals,
      force_scope : BOOLEAN,
      scopes_given : {FALSE},
      scopes_val : {<<>>},
      strict : BOOLEAN,
      edit : BOOLEAN,
      unknown : BOOLEAN ]
    \cup
    [ pos : Positionals,
      force_scope : BOOLEAN,
      scopes_given : {TRUE},
      scopes_val : ScopesValues,
      strict : BOOLEAN,
      edit : BOOLEAN,
      unknown : {FALSE} ]

\* What `git var GIT_EDITOR` may print: an editor, or nothing.
Editors == {"vi", ""}

NoArgs ==
    [ types |-> <<>>, input |-> "", optional_scope |-> TRUE, scopes |-> None,
      strict |-> FALSE, edit |-> FALSE ]

NoCall ==
    [ fn |-> "", message |-> <<>>, types |-> <<>>, optional_scope |-> TRUE,
      scopes |-> None, at |-> "" ]

AutosquashCall(m, at) ==
    [ fn |-> "has_autosquash_prefix", message |-> m, types |-> <<>>,
      optional_scope |-> TRUE, scopes |-> None, at |-> at ]

ConventionalCall(m, t, o, s, at) ==
    [ fn |-> "is_conventional", message |-> m, types |-> t, optional_scope |-> o,
      scopes |-> s, at |-> at ]

(***************************************************************************)
(* argparse, as configured on lines 36-60                                  *)
(***************************************************************************)
\* parse_args exits on an unrecognised option and when `input` is missing.
ParseOK(a) == ~a.unknown /\ Len(a.pos) >= 1

\* ParseTypes without the default.
ParseTypes_NoDefault(pos) == SubSeq(pos, 1, Len(pos) - 1)

\* `types` takes the positionals before the last; with none, its default.
ParseTypes(pos) ==
    IF Len(pos) > 1 THEN SubSeq(pos, 1, Len(pos) - 1) ELSE DEFAULT_TYPES

\* --force-scope is store_false into optional_scope.
ParseOptionalScope(a) == ~a.force_scope

\* --scopes: the string given, default None.
ParseScopes(a) == IF a.scopes_given THEN Str(a.scopes_val) ELSE None

ParseArgs(a) ==
    [ types |-> ParseTypes(a.pos),
      input |-> a.pos[Len(a.pos)],
      optional_scope |-> ParseOptionalScope(a),
      scopes |-> ParseScopes(a),
      strict |-> a.strict,
      edit |-> a.edit ]

\* ScopesOf without the split: the whole value as the only scope.
ScopesOf_NoSplit(s) == IF Truthy(s) THEN List(<<s.str>>) ELSE s

\* Lines 72-75.
ScopesOf(s) == IF Truthy(s) THEN List(Split(s.str)) ELSE s

(***************************************************************************)
(* main                                                                    *)
(***************************************************************************)
Init ==
    /\ pc = "parse"
    /\ argv \in Argvs
    /\ args = NoArgs
    /\ file \in FileContents
    /\ file0 = file
    /\ message = <<>>
    /\ scopes = None
    /\ editor = ""
    /\ ret = <<>>
    /\ via = ""
    /\ lastCall = NoCall
    /\ lastOp = "enter"
    /\ prevOp = ""
    /\ autoCalled = FALSE
    /\ convCalled = FALSE
    /\ wrote = FALSE
    /\ launched = FALSE
    /\ edited = FALSE
    /\ fresh = FALSE

Op(name) ==
    /\ lastOp' = name
    /\ prevOp' = lastOp

Return(code, where) ==
    /\ pc' = "returned"
    /\ ret' = <<code>>
    /\ via' = where

\* read_message_or_exit that reports the failure and goes on with the bytes.
ReadMessageOrExit_Continues(next) ==
    /\ message' = file
    /\ pc' = next
    /\ Op(IF Decodable(file) THEN "read" ELSE "decode_error")
    /\ fresh' = TRUE
    /\ UNCHANGED <<ret, via>>

\* read_message_or_exit (lines 18-32), continuing at `next` with the text.
ReadMessageOrExit(next) ==
    IF Decodable(file)
    THEN /\ message' = file
         /\ pc' = next
         /\ Op("read")
         /\ fresh' = TRUE
         /\ UNCHANGED <<ret, via>>
    ELSE /\ pc' = "SystemExit"
         /\ ret' = <<RESULT_FAIL>>
         /\ Op("decode_error")
         /\ UNCHANGED <<message, via, fresh>>

\* Lines 65-68.
Parse ==
    /\ pc = "parse"
    /\ IF ParseOK(argv)
       THEN /\ args' = ParseArgs(argv)
            /\ pc' = "read"
            /\ UNCHANGED <<ret, via>>
       ELSE /\ Return(RESULT_FAIL, "parse_fail")
            /\ UNCHANGED args
    /\ Op("parse")
    /\ UNCHANGED <<argv, file, message, scopes, editor, file0, lastCall,
                   autoCalled, convCalled, wrote, launched, edited, fresh>>

\* Line 70.
Read ==
    /\ pc = "read"
    /\ ReadMessageOrExit("scopes")
    /\ UNCHANGED <<argv, args, file, scopes, editor, file0, lastCall,
                   autoCalled, convCalled, wrote, launched, edited>>

\* Lines 72-75.
SetScopes ==
    /\ pc = "scopes"
    /\ scopes' = ScopesOf(args.scopes)
    /\ pc' = "autosquash"
    /\ Op("scopes")
    /\ UNCHANGED <<argv, args, file, message, editor, ret, file0, via, lastCall,
                   autoCalled, convCalled, wrote, launched, edited, fresh>>

\* Autosquash that finds the prefix and goes on to the grammar check all the same.
Autosquash_NoShortCircuit ==
    /\ pc = "autosquash"
    /\ IF ~args.strict
       THEN /\ lastCall' = AutosquashCall(message, "check")
            /\ autoCalled' = TRUE
            /\ Op("has_autosquash_prefix")
       ELSE /\ Op("strict")
            /\ UNCHANGED <<lastCall, autoCalled>>
    /\ pc' = "check"
    /\ UNCHANGED <<argv, args, file, message, scopes, editor, ret, via, file0,
                   convCalled, wrote, launched, edited, fresh>>

\* Autosquash that does not look at --strict.
Autosquash_IgnoresStrict ==
    /\ pc = "autosquash"
    /\ lastCall' = AutosquashCall(message, "check")
    /\ autoCalled' = TRUE
    /\ Op("has_autosquash_prefix")
    /\ IF has_autosquash_prefix(message)
       THEN Return(RESULT_SUCCESS, "autosquash")
       ELSE pc' = "check" /\ UNCHANGED <<ret, via>>
    /\ UNCHANGED <<argv, args, file, message, scopes, editor, file0,
                   convCalled, wrote, launched, edited, fresh>>

\* Lines 77-79.
Autosquash ==
    /\ pc = "autosquash"
    /\ IF ~args.strict
       THEN /\ lastCall' = AutosquashCall(message, "check")
            /\ autoCalled' = TRUE
            /\ Op("has_autosquash_prefix")
            /\ IF has_autosquash_prefix(message)
               THEN Return(RESULT_SUCCESS, "autosquash")
               ELSE pc' = "check" /\ UNCHANGED <<ret, via>>
       ELSE /\ pc' = "check"
            /\ Op("strict")
            /\ UNCHANGED <<ret, via, lastCall, autoCalled>>
    /\ UNCHANGED <<argv, args, file, message, scopes, editor, file0,
                   convCalled, wrote, launched, edited, fresh>>

\* Check that writes the help text into the file when it fails without --edit.
Check_WritesHelp ==
    /\ pc = "check"
    /\ lastCall' = ConventionalCall(message, args.types, args.optional_scope, scopes, "check")
    /\ convCalled' = TRUE
    /\ Op("is_conventional")
    /\ IF is_conventional(message, args.types, args.optional_scope, scopes)
       THEN Return(RESULT_SUCCESS, "check") /\ UNCHANGED file
       ELSE IF ~args.edit
            THEN Return(RESULT_FAIL, "no_edit") /\ file' = HelpHeader \o message
            ELSE pc' = "git_var" /\ UNCHANGED <<ret, via, file>>
    /\ UNCHANGED <<argv, args, message, scopes, editor, file0,
                   autoCalled, wrote, launched, edited, fresh>>

\* Lines 81-115.
Check ==
    /\ pc = "check"
    /\ lastCall' = ConventionalCall(message, args.types, args.optional_scope, scopes, "check")
    /\ convCalled' = TRUE
    /\ Op("is_conventional")
    /\ IF is_conventional(message, args.types, args.optional_scope, scopes)
       THEN Return(RESULT_SUCCESS, "check")
       ELSE IF ~args.edit
            THEN Return(RESULT_FAIL, "no_edit")
            ELSE pc' = "git_var" /\ UNCHANGED <<ret, via>>
    /\ UNCHANGED <<argv, args, file, message, scopes, editor, file0,
                   autoCalled, wrote, launched, edited, fresh>>

\* Lines 117-125: `git var GIT_EDITOR`.
GitVarEditor ==
    /\ pc = "git_var"
    /\ editor' \in Editors
    /\ launched' = TRUE
    /\ pc' = "loop_read"
    /\ Op("git_var")
    /\ UNCHANGED <<argv, args, file, message, scopes, ret, file0, via, lastCall,
                   autoCalled, convCalled, wrote, edited, fresh>>

\* Line 128.
LoopRead ==
    /\ pc = "loop_read"
    /\ ReadMessageOrExit("loop_check")
    /\ UNCHANGED <<argv, args, file, scopes, editor, file0, lastCall,
                   autoCalled, convCalled, wrote, launched, edited>>

\* Lines 129-130.
LoopCheck ==
    /\ pc = "loop_check"
    /\ lastCall' = ConventionalCall(message, args.types, args.optional_scope, scopes, "loop")
    /\ convCalled' = TRUE
    /\ Op("is_conventional")
    /\ IF is_conventional(message, args.types, args.optional_scope, scopes)
       THEN Return(RESULT_SUCCESS, "loop")
       ELSE pc' = "write" /\ UNCHANGED <<ret, via>>
    /\ UNCHANGED <<argv, args, file, message, scopes, editor, file0,
                   autoCalled, wrote, launched, edited, fresh>>

\* WriteFile that writes the header and drops the message.
WriteFile_HeaderOnly ==
    /\ pc = "write"
    /\ file' = HelpHeader
    /\ wrote' = TRUE
    /\ pc' = "editor"
    /\ Op("write")
    /\ UNCHANGED <<argv, args, message, scopes, editor, ret, file0, via, lastCall,
                   autoCalled, convCalled, launched, edited, fresh>>

\* Lines 132-145: the file is truncated, then the header and the message
\* that was read are written.
WriteFile ==
    /\ pc = "write"
    /\ file' = HelpHeader \o message
    /\ wrote' = TRUE
    /\ pc' = "editor"
    /\ Op("write")
    /\ UNCHANGED <<argv, args, message, scopes, editor, ret, file0, via, lastCall,
                   autoCalled, convCalled, launched, edited, fresh>>

\* What the editor may leave in the file: any content, or the file as it was.
EditorResults(f) ==
    FileContents \cup (IF Len(f) <= MaxFileLen THEN {f} ELSE {})

\* Lines 147-153: the editor runs on the file; its exit status is ignored
\* (check=False).
RunEditor ==
    /\ pc = "editor"
    /\ editor # ""
    /\ file' \in EditorResults(file)
    /\ edited' = TRUE
    /\ fresh' = FALSE
    /\ pc' = "loop_read"
    /\ Op("editor")
    /\ UNCHANGED <<argv, args, message, scopes, editor, ret, file0, via, lastCall,
                   autoCalled, convCalled, wrote, launched>>

\* Lines 147-153: subprocess.run raises OSError when there is no program to
\* start; main does not catch it.
EditorNotFound ==
    /\ pc = "editor"
    /\ editor = ""
    /\ pc' = "OSError"
    /\ Op("editor_error")
    /\ UNCHANGED <<argv, args, file, message, scopes, editor, ret, file0, via,
                   lastCall, autoCalled, convCalled, wrote, launched, edited, fresh>>

Next ==
    \/ Parse
    \/ Read
    \/ SetScopes
    \/ Autosquash
    \/ Check
    \/ GitVarEditor
    \/ LoopRead
    \/ LoopCheck
    \/ WriteFile
    \/ RunEditor
    \/ EditorNotFound

Spec == Init /\ [][Next]_vars

\* main runs to its next statement whenever it has one; an editor that was
\* started exits.
FairSpec == Spec /\ WF_vars(Next)

Terminated == pc \in {"returned", "SystemExit", "OSError"}

(***************************************************************************)
(* Properties                                                              *)
(***************************************************************************)
Parsed == ParseOK(argv)

\* The message conforms: it is conventional, or exempt as an autosquash
\* commit when --strict is not given.
Conforms(m) ==
    \/ is_conventional(m, args.types, args.optional_scope, scopes)
    \/ ~args.strict /\ has_autosquash_prefix(m)

\* The arguments of the most recent is_conventional call say it returned true.
LastCallTrue ==
    is_conventional(lastCall.message, lastCall.types, lastCall.optional_scope,
                    lastCall.scopes)

\* C1: with parseable arguments and a decodable file, under every combination
\* of the options, main returns 0 when the message it evaluates conforms and
\* 1 otherwise: whenever main has returned, the value is 0 or 1 and is 0
\* exactly when the message conforms, and a message found to conform at the
\* initial check or at a re-check in the --edit loop makes main return 0.
C1_ExitCodeFollowsConformance ==
    [][ /\ (Parsed /\ pc' = "returned") =>
              /\ ret' \in {<<RESULT_SUCCESS>>, <<RESULT_FAIL>>}
              /\ (ret' = <<RESULT_SUCCESS>>) <=> Conforms(message')
        /\ (pc \in {"check", "loop_check"} /\ Conforms(message)) =>
              /\ pc' = "returned"
              /\ ret' = <<RESULT_SUCCESS>> ]_vars

\* C2: without --strict, a message with an autosquash prefix makes main return
\* RESULT_SUCCESS with is_conventional never called, the file never written and
\* no subprocess started, whatever the types, --force-scope, --scopes, --edit.
C2_AutosquashShortCircuit ==
    (Parsed /\ ~argv.strict /\ Decodable(file0) /\ has_autosquash_prefix(file0)) =>
        /\ ~convCalled
        /\ ~wrote
        /\ ~launched
        /\ ~edited
        /\ file = file0
        /\ pc \in {"parse", "read", "scopes", "autosquash", "returned"}
        /\ pc = "returned" => ret = <<RESULT_SUCCESS>> /\ via = "autosquash"
        /\ pc = "returned" => lastCall = AutosquashCall(file0, "check")

C2_Witness ==
    /\ pc = "returned"
    /\ via = "autosquash"
    /\ argv.edit
    /\ argv.force_scope
    /\ argv.scopes_given
    /\ ~is_conventional(message, args.types, args.optional_scope, scopes)

\* C3: with --strict, has_autosquash_prefix is never called and what main
\* returns is decided by is_conventional alone, so an autosquash message that
\* is not conventional is never accepted.
C3_StrictDisablesExemption ==
    (Parsed /\ argv.strict) =>
        /\ ~autoCalled
        /\ lastCall.fn # "has_autosquash_prefix"
        /\ pc = "returned" =>
              /\ convCalled
              /\ (ret = <<RESULT_SUCCESS>>) <=>
                     is_conventional(message, args.types, args.optional_scope, scopes)
              /\ (has_autosquash_prefix(message)
                    /\ ~is_conventional(message, args.types, args.optional_scope, scopes))
                 => ret = <<RESULT_FAIL>>

C3_Witness ==
    /\ argv.strict
    /\ pc = "returned"
    /\ ret = <<RESULT_FAIL>>
    /\ has_autosquash_prefix(message)

\* C4: with --edit, on every execution main eventually returns (or otherwise
\* ends): the loop is left because the message has become conformant or
\* because the user gave up in the editor.
C4_EditLoopTerminates == <>Terminated

\* C5: a decoding failure, on the first read or on a re-read in the loop, ends
\* the process with SystemExit(RESULT_FAIL): main goes on past a read only with
\* decodable text, no format function is ever given undecodable text, and after
\* the failure nothing more happens (no write, no editor).
C5_DecodeFailureIsFatal ==
    /\ Decodable(message)
    /\ lastCall.fn # "" => Decodable(lastCall.message)
    /\ pc \in {"scopes", "autosquash", "check", "git_var", "loop_check", "write"}
          => Decodable(file) /\ message = file
    /\ lastOp = "decode_error" <=> pc = "SystemExit"
    /\ pc = "SystemExit" =>
          /\ ret = <<RESULT_FAIL>>
          /\ ~Decodable(file)
          /\ prevOp \in {"parse", "editor", "git_var"}
          /\ ~ENABLED Next

C5_Witness ==
    /\ pc = "SystemExit"
    /\ edited
    /\ wrote

\* C6: the types given to every is_conventional call are never empty: they are
\* DEFAULT_TYPES when the command line has no type positional, and otherwise
\* the positionals before the last one, in order.
C6_TypesNeverEmpty ==
    lastCall.fn = "is_conventional" =>
        /\ lastCall.types # <<>>
        /\ Len(argv.pos) = 1 => lastCall.types = DEFAULT_TYPES
        /\ Len(argv.pos) > 1 =>
              /\ Len(lastCall.types) = Len(argv.pos) - 1
              /\ \A i \in 1..Len(lastCall.types) : lastCall.types[i] = argv.pos[i]

C6_Witness ==
    /\ lastCall.fn = "is_conventional"
    /\ lastCall.at = "loop"
    /\ Len(argv.pos) = 1

\* C7: without --strict an autosquash message is exempt wherever main
\* evaluates a message: main never goes on to report a failure, to rewrite the
\* file or to open the editor for a message that has an autosquash prefix.
C7_AutosquashExemptEverywhere ==
    (Parsed /\ ~argv.strict /\ has_autosquash_prefix(message)) =>
        /\ pc \notin {"git_var", "write", "editor"}
        /\ via # "no_edit"

\* Joining the segments with commas.
RECURSIVE Join(_)
Join(l) ==
    IF Len(l) = 0 THEN <<>>
    ELSE IF Len(l) = 1 THEN l[1]
    ELSE l[1] \o <<",">> \o Join(Tail(l))

\* The scope of a header, <<>> when it has none.
MessageScope(m) ==
    LET h == HeaderLine(m)
    IN  IF Len(h) >= 2 /\ h[2] = "(" /\ IndexOf(h, ")") > 2
        THEN SubSeq(h, 3, IndexOf(h, ")") - 1)
        ELSE <<>>

\* What every is_conventional call is given besides the scopes, and what an
\* allow-list does: types and optional_scope come from the command line
\* (optional_scope false exactly with --force-scope) at the initial check and
\* at every re-check; an accepted message with a scope has it in the list.
CallUsesCommandLine ==
    /\ lastCall.optional_scope = ~argv.force_scope
    /\ lastCall.types = args.types
    /\ lastCall.scopes = scopes
    /\ lastCall.at \in {"check", "loop"}
    /\ (Truthy(lastCall.scopes) /\ LastCallTrue /\ MessageScope(lastCall.message) # <<>>)
          => \E i \in 1..Len(lastCall.scopes.list) :
                 lastCall.scopes.list[i] = MessageScope(lastCall.message)

\* C8 as stated: the allow-list given to is_conventional is None exactly when
\* --scopes is not given or is the empty string, and otherwise the list of the
\* comma separated segments of its value.
C8_ScopesNoneOrSegments ==
    lastCall.fn = "is_conventional" =>
        /\ (lastCall.scopes = None) <=> (~argv.scopes_given \/ argv.scopes_val = <<>>)
        /\ lastCall.scopes # None =>
              /\ lastCall.scopes.kind = "list"
              /\ Join(lastCall.scopes.list) = argv.scopes_val
        /\ CallUsesCommandLine

\* C8 amended: the allow-list is None when --scopes is not given, the empty
\* string itself when --scopes is the empty string (as falsy as None, so no
\* list restricts the scope), and otherwise the ordered list of the comma
\* separated segments of its value; the same values at every call.
C8_ScopesAbsentOrSegments ==
    lastCall.fn = "is_conventional" =>
        /\ ~argv.scopes_given => lastCall.scopes = None
        /\ (argv.scopes_given /\ argv.scopes_val = <<>>) =>
              /\ lastCall.scopes = Str(<<>>)
              /\ ~Truthy(lastCall.scopes)
        /\ (argv.scopes_given /\ argv.scopes_val # <<>>) =>
              /\ lastCall.scopes.kind = "list"
              /\ Len(lastCall.scopes.list) >= 1
              /\ Join(lastCall.scopes.list) = argv.scopes_val
              /\ \A i \in 1..Len(lastCall.scopes.list) :
                     "," \notin Range(lastCall.scopes.list[i])
        /\ CallUsesCommandLine

C8_Witness ==
    /\ lastCall.fn = "is_conventional"
    /\ lastCall.at = "loop"
    /\ argv.scopes_val = <<"api", ",", "client">>
    /\ argv.force_scope
    /\ pc = "returned"
    /\ MessageScope(message) = <<"client">>

\* C9: main leaves the file as it was and starts no subprocess unless --edit
\* is given and the message failed the check: returning from a parse failure,
\* from the autosquash exemption, from the successful first check or from the
\* failure branch without --edit, the file is as at entry; and main writes the
\* file only right after an is_conventional call in the loop returned false.
C9_FileUntouchedUnlessEditing ==
    /\ (pc = "returned" /\ via \in {"parse_fail", "autosquash", "check", "no_edit"}) =>
          /\ file = file0
          /\ ~wrote
          /\ ~launched
          /\ ~edited
    /\ (wrote \/ launched \/ edited \/ file # file0) =>
          /\ args.edit
          /\ Decodable(file0)
          /\ ~is_conventional(file0, args.types, args.optional_scope, scopes)
          /\ args.strict \/ ~has_autosquash_prefix(file0)
    /\ file # file0 => wrote
    /\ lastOp = "write" =>
          /\ prevOp = "is_conventional"
          /\ lastCall.fn = "is_conventional"
          /\ lastCall.at = "loop"
          /\ ~LastCallTrue

C9_Witness ==
    /\ pc = "returned"
    /\ via = "no_edit"
    /\ file = file0
    /\ file # <<>>

\* C10: in the --edit loop each rewrite stores the help header followed by
\* exactly the message read in that iteration, the editor is started only
\* right after such a rewrite, and main returns RESULT_SUCCESS from the loop
\* only for a message read after the most recent editor run that is
\* conventional.
C10_NoTextLostNoStaleSuccess ==
    /\ pc = "editor" =>
          /\ lastOp = "write"
          /\ fresh
          /\ Len(file) = Len(HelpHeader) + Len(message)
          /\ SubSeq(file, 1, Len(HelpHeader)) = HelpHeader
          /\ SubSeq(file, Len(HelpHeader) + 1, Len(file)) = message
    /\ lastOp \in {"editor", "editor_error"} => prevOp = "write"
    /\ (pc = "returned" /\ via = "loop") =>
          /\ ret = <<RESULT_SUCCESS>>
          /\ edited
          /\ fresh
          /\ message = file
          /\ is_conventional(message, args.types, args.optional_scope, scopes)

C10_Witness ==
    /\ pc = "returned"
    /\ via = "loop"
    /\ file # file0

====
